---- MODULE Spec2Model ----
(***************************************************************************)
(* rpc::connection_cache: the per-shard registry of reconnect_transport    *)
(* handles.  One instance per shard holds _cache (node_id -> transport)    *)
(* and _sem, the semaphore that emplace and remove take one unit of around *)
(* their map update; stop fans a transport stop out to every entry.        *)
(*                                                                         *)
(* A call is a record in calls[s], the calls made on shard s in invocation *)
(* order; its index there is the call's identity on that shard.  A         *)
(* transport is identified by the emplace call that constructed it.        *)
(* A stop call records the map it found (seen), the transports it asked to *)
(* stop (asked) and how each of those stop futures resolved (outcome).     *)
(* A lookup that found an entry is a call too: it holds a handle on the    *)
(* transport it saw until its caller lets go of it.                        *)
(* The steps of a call are its scheduling points on the shard's reactor:   *)
(* invocation, continuation after the semaphore units are granted, release *)
(* of the units, completion of a transport's stop future.                  *)
(***************************************************************************)
EXTENDS Integers, Sequences, FiniteSets, TLC

\* Bounds of the model: the calls made in one behaviour, the shards of the
\* process (smp::count of them), the node ids and the configurations used.
MaxCalls == 3
Shards == {0, 1}
Nodes == {0, 1, 2}
Cfgs == {1, 2}

VARIABLES
    calls,       \* calls[s]: every call made on shard s, in invocation order
    cache,       \* cache[s]: _cache of shard s, node -> transport
    sem,         \* sem[s]: available units of _sem of shard s
    waiters,     \* waiters[s]: calls suspended on _sem of shard s, FIFO
    transports,  \* transports[s]: every transport constructed on shard s, with
                 \* its configuration, the stop requests it received (reqs) and
                 \* completed (fin), and whether it still exists (alive)
    acquired,    \* acquired[s]: calls in the order they were granted _sem
    applied      \* applied[s]: calls in the order their map update ran

vars == <<calls, cache, sem, waiters, transports, acquired, applied>>

----------------------------------------------------------------------------
\* Helpers

EmptyMap == [n \in {} |-> 0]

Range(m) == {m[k] : k \in DOMAIN m}

RECURSIVE SumLen(_, _)
SumLen(f, S) ==
    IF S = {} THEN 0
    ELSE LET s == CHOOSE x \in S : TRUE IN Len(f[s]) + SumLen(f, S \ {s})

\* Calls made so far, on all shards.
NumCalls == SumLen(calls, Shards)

\* The initial count of _sem (one mutation slot per shard).
SemInit == 1

\* Units each mutation takes: with_semaphore(_sem, 1, ...).
SemUnits == 1

\* The shard that owns node n.
shard_for(n) == n % Cardinality(Shards)

\* The handle lookup returns on shard s: a transport, or 0 for none.
Lookup(s, n) == IF n \in DOMAIN cache[s] THEN cache[s][n] ELSE 0

\* Variants of the affinity check: the comparison inverted, the check dropped.
AffinityOkInverted(s, n) == shard_for(n) /= s

AffinityOkDropped(s, n) == TRUE

\* if (auto s = shard_for(n); s != engine().cpu_id()) throw ...
AffinityOk(s, n) == shard_for(n) = s

\* Variant of the insertion: insert_or_assign, which replaces an entry.
MapAssign(m, n, t) == [k \in DOMAIN m \cup {n} |-> IF k = n THEN t ELSE m[k]]

\* _cache.emplace(n, t): inserts only when n has no entry.
MapEmplace(m, n, t) == IF n \in DOMAIN m THEN m ELSE m @@ (n :> t)

\* Variants of the erasure: erase through an unchecked find (an absent key
\* takes another entry with it), and an erasure that is lost.
MapEraseUnchecked(m, n) ==
    IF n \in DOMAIN m THEN [k \in DOMAIN m \ {n} |-> m[k]] ELSE EmptyMap

MapEraseLost(m, n) == m

\* Variant of the erasure: the whole map is cleared.
MapEraseAll(m, n) == EmptyMap

\* _cache.erase(n)
MapErase(m, n) == [k \in DOMAIN m \ {n} |-> m[k]]

\* Variant of the admission: the count is not consulted.
SemMayProceedUncounted(s) == waiters[s] = <<>>

\* semaphore::wait proceeds at once when the units are there and nobody waits.
SemMayProceed(s) == sem[s] >= SemUnits /\ waiters[s] = <<>>

\* The lookups of shard s whose caller still holds the handle it got.
Holding(s) == {i \in DOMAIN calls[s] :
                  calls[s][i].op = "get" /\ calls[s][i].pc = "held"}

\* The transport a lookup returned.
HandleOf(s, i) == calls[s][i].seen[calls[s][i].node]

\* The transports that the lookups I of shard s hold a handle on.
Held(s, I) == {HandleOf(s, i) : i \in I}

\* Variant of the ownership: the map is the only owner of a transport.
ReferencedByMapOnly(t, m, h) == t \in Range(m)

\* make_lw_shared: a transport is shared by the map m and the handles h, and
\* lives as long as one of them refers to it.
Referenced(t, m, h) == t \in Range(m) \/ t \in h

\* The transports trs after those that lost their last reference are destroyed.
Reap(trs, m, h) ==
    [t \in DOMAIN trs |-> [trs[t] EXCEPT !.alive = @ /\ Referenced(t, m, h)]]

NewCall(op, n, c, pc, res) ==
    [op |-> op, node |-> n, cfg |-> c, pc |-> pc, res |-> res,
     seen |-> EmptyMap, asked |-> {}, outcome |-> EmptyMap]

----------------------------------------------------------------------------
Init ==
    /\ calls = [s \in Shards |-> <<>>]
    /\ cache = [s \in Shards |-> EmptyMap]
    /\ sem = [s \in Shards |-> SemInit]
    /\ waiters = [s \in Shards |-> <<>>]
    /\ transports = [s \in Shards |-> EmptyMap]
    /\ acquired = [s \in Shards |-> <<>>]
    /\ applied = [s \in Shards |-> <<>>]

\* Variant of the entry: the affinity check made inside the semaphore, so
\* that a call for a foreign node queues like any other before it is refused.
MutateSlotFirst(op, s, n, c) ==
    LET id == Len(calls[s]) + 1 IN
    /\ NumCalls < MaxCalls
    /\ IF SemMayProceed(s)
       THEN IF shard_for(n) = s
            THEN /\ calls' = [calls EXCEPT ![s] =
                        Append(@, NewCall(op, n, c, "holding", "pending"))]
                 /\ sem' = [sem EXCEPT ![s] = @ - SemUnits]
                 /\ acquired' = [acquired EXCEPT ![s] = Append(@, id)]
                 /\ UNCHANGED waiters
            ELSE /\ calls' = [calls EXCEPT ![s] =
                        Append(@, NewCall(op, n, 0, "done", "affinity"))]
                 /\ UNCHANGED <<sem, waiters, acquired>>
       ELSE /\ calls' = [calls EXCEPT ![s] =
                   Append(@, NewCall(op, n, c, "waiting", "pending"))]
            /\ waiters' = [waiters EXCEPT ![s] = Append(@, id)]
            /\ UNCHANGED <<sem, acquired>>
    /\ UNCHANGED <<cache, transports, applied>>

\* The affinity check and the with_semaphore entry shared by emplace and remove.
\* A refused call throws before its configuration is used.
Mutate(op, s, n, c) ==
    LET id == Len(calls[s]) + 1 IN
    /\ NumCalls < MaxCalls
    /\ IF ~AffinityOk(s, n)
       THEN /\ calls' = [calls EXCEPT ![s] =
                   Append(@, NewCall(op, n, 0, "done", "affinity"))]
            /\ UNCHANGED <<sem, waiters, acquired>>
       ELSE IF SemMayProceed(s)
       THEN /\ calls' = [calls EXCEPT ![s] =
                   Append(@, NewCall(op, n, c, "holding", "pending"))]
            /\ sem' = [sem EXCEPT ![s] = @ - SemUnits]
            /\ acquired' = [acquired EXCEPT ![s] = Append(@, id)]
            /\ UNCHANGED waiters
       ELSE /\ calls' = [calls EXCEPT ![s] =
                   Append(@, NewCall(op, n, c, "waiting", "pending"))]
            /\ waiters' = [waiters EXCEPT ![s] = Append(@, id)]
            /\ UNCHANGED <<sem, acquired>>
    /\ UNCHANGED <<cache, transports, applied>>

\* connection_cache::emplace(n, c) invoked on shard s.
Emplace(s, n, c) == Mutate("emplace", s, n, c)

\* connection_cache::remove(n) invoked on shard s.
Remove(s, n) == Mutate("remove", s, n, 0)

\* The lambda of emplace: construct the transport, then _cache.emplace; a
\* transport that the map did not take is destroyed with the argument.
\* ok = FALSE: the construction throws.
EmplaceBody(s, id, ok) ==
    /\ calls[s][id].op = "emplace"
    /\ calls[s][id].pc = "holding"
    /\ IF ok
       THEN /\ cache' = [cache EXCEPT ![s] = MapEmplace(@, calls[s][id].node, id)]
            /\ transports' = [transports EXCEPT ![s] =
                   Reap(@ @@ (id :> [cfg |-> calls[s][id].cfg, reqs |-> 0,
                                     fin |-> 0, alive |-> TRUE]),
                        cache'[s], Held(s, Holding(s)))]
            /\ calls' = [calls EXCEPT ![s][id].pc = "ran"]
       ELSE /\ calls' = [calls EXCEPT ![s][id].pc = "ran",
                                      ![s][id].res = "construct"]
            /\ UNCHANGED <<transports, cache>>
    /\ applied' = [applied EXCEPT ![s] = Append(@, id)]
    /\ UNCHANGED <<sem, waiters, acquired>>

\* Variant of the lambda of remove: the erased transport is asked to stop.
RemoveBodyStopping(s, id) ==
    /\ calls[s][id].op = "remove"
    /\ calls[s][id].pc = "holding"
    /\ cache' = [cache EXCEPT ![s] = MapErase(@, calls[s][id].node)]
    /\ transports' = [transports EXCEPT ![s] = Reap(
           [t \in DOMAIN @ |->
               IF t = Lookup(s, calls[s][id].node)
               THEN [@[t] EXCEPT !.reqs = @ + 1] ELSE @[t]],
           cache'[s], Held(s, Holding(s)))]
    /\ calls' = [calls EXCEPT ![s][id].pc = "ran"]
    /\ applied' = [applied EXCEPT ![s] = Append(@, id)]
    /\ UNCHANGED <<sem, waiters, acquired>>

\* The lambda of remove: _cache.erase(n), which drops the map's reference.
RemoveBody(s, id) ==
    /\ calls[s][id].op = "remove"
    /\ calls[s][id].pc = "holding"
    /\ cache' = [cache EXCEPT ![s] = MapErase(@, calls[s][id].node)]
    /\ transports' = [transports EXCEPT ![s] =
           Reap(@, cache'[s], Held(s, Holding(s)))]
    /\ calls' = [calls EXCEPT ![s][id].pc = "ran"]
    /\ applied' = [applied EXCEPT ![s] = Append(@, id)]
    /\ UNCHANGED <<sem, waiters, acquired>>

\* Variant of the release: the units come back only when the lambda returned
\* normally (a wait and a signal around it, with nothing on the throwing path).
ReleaseOnSuccessOnly(s, id) ==
    LET n == sem[s] + SemUnits
        grant == waiters[s] /= <<>> /\ n >= SemUnits
        w == Head(waiters[s])
    IN
    /\ calls[s][id].op \in {"emplace", "remove"}
    /\ calls[s][id].pc = "ran"
    /\ IF calls[s][id].res /= "pending"
       THEN /\ calls' = [calls EXCEPT ![s][id].pc = "done"]
            /\ UNCHANGED <<sem, waiters, acquired>>
       ELSE IF grant
       THEN /\ sem' = [sem EXCEPT ![s] = n - SemUnits]
            /\ waiters' = [waiters EXCEPT ![s] = Tail(@)]
            /\ acquired' = [acquired EXCEPT ![s] = Append(@, w)]
            /\ calls' = [calls EXCEPT ![s][id].pc = "done", ![s][id].res = "ok",
                                      ![s][w].pc = "holding"]
       ELSE /\ sem' = [sem EXCEPT ![s] = n]
            /\ calls' = [calls EXCEPT ![s][id].pc = "done", ![s][id].res = "ok"]
            /\ UNCHANGED <<waiters, acquired>>
    /\ UNCHANGED <<cache, transports, applied>>

\* Variant of the release: the units come back but no waiter is woken.
ReleaseWakesNobody(s, id) ==
    /\ calls[s][id].op \in {"emplace", "remove"}
    /\ calls[s][id].pc = "ran"
    /\ sem' = [sem EXCEPT ![s] = @ + SemUnits]
    /\ calls' = [calls EXCEPT ![s][id].pc = "done",
          ![s][id].res = IF @ = "pending" THEN "ok" ELSE @]
    /\ UNCHANGED <<cache, waiters, transports, acquired, applied>>

\* with_semaphore returns the units when the lambda has finished, normally or
\* by exception; the semaphore hands them to the first waiter, if any.
Release(s, id) ==
    LET n == sem[s] + SemUnits
        grant == waiters[s] /= <<>> /\ n >= SemUnits
        w == Head(waiters[s])
        res == IF calls[s][id].res = "pending" THEN "ok" ELSE calls[s][id].res
    IN
    /\ calls[s][id].op \in {"emplace", "remove"}
    /\ calls[s][id].pc = "ran"
    /\ IF grant
       THEN /\ sem' = [sem EXCEPT ![s] = n - SemUnits]
            /\ waiters' = [waiters EXCEPT ![s] = Tail(@)]
            /\ acquired' = [acquired EXCEPT ![s] = Append(@, w)]
            /\ calls' = [calls EXCEPT ![s][id].pc = "done", ![s][id].res = res,
                                      ![s][w].pc = "holding"]
       ELSE /\ sem' = [sem EXCEPT ![s] = n]
            /\ calls' = [calls EXCEPT ![s][id].pc = "done", ![s][id].res = res]
            /\ UNCHANGED <<waiters, acquired>>
    /\ UNCHANGED <<cache, transports, applied>>

\* Variant of the fan-out: no entry is visited.
StopTargetsNone(s) == {}

\* The entries parallel_for_each(_cache, ...) visits.
StopTargets(s) == Range(cache[s])

\* connection_cache::stop() invoked on shard s: cli->stop() on every entry.
Stop(s) ==
    /\ NumCalls < MaxCalls
    /\ calls' = [calls EXCEPT ![s] = Append(@,
          [NewCall("stop", 0, 0, "draining", "pending")
              EXCEPT !.seen = cache[s], !.asked = StopTargets(s)])]
    /\ transports' = [transports EXCEPT ![s] = [t \in DOMAIN @ |->
          IF t \in StopTargets(s) THEN [@[t] EXCEPT !.reqs = @ + 1] ELSE @[t]]]
    /\ UNCHANGED <<cache, sem, waiters, acquired, applied>>

\* The transports whose stop future call id of shard s still waits for.
Awaited(s, id) == calls[s][id].asked \ DOMAIN calls[s][id].outcome

\* The stop future of transport t, requested by call id, resolves; ok = FALSE:
\* it resolves with an exception.
ShutdownFinish(s, id, t, ok) ==
    /\ calls[s][id].op = "stop"
    /\ calls[s][id].pc = "draining"
    /\ t \in Awaited(s, id)
    /\ calls' = [calls EXCEPT ![s][id].outcome = @ @@ (t :> ok)]
    /\ transports' = [transports EXCEPT ![s][t].fin = @ + 1]
    /\ UNCHANGED <<cache, sem, waiters, acquired, applied>>

\* Variant of the wait: resolve as soon as one future failed (fail fast).
StopMayReturnFailFast(s, id) ==
    \/ calls[s][id].asked \ DOMAIN calls[s][id].outcome = {}
    \/ \E t \in DOMAIN calls[s][id].outcome : ~calls[s][id].outcome[t]

\* parallel_for_each resolves when every future it collected has resolved.
StopMayReturn(s, id) == Awaited(s, id) = {}

\* Variant of the result: the exceptions of the futures are discarded.
StopResultDiscarded(s, id) == "ok"

\* parallel_for_each resolves with an exception when one of the futures did.
StopResult(s, id) ==
    IF \E t \in DOMAIN calls[s][id].outcome : ~calls[s][id].outcome[t]
    THEN "shutdown" ELSE "ok"

StopReturn(s, id) ==
    /\ calls[s][id].op = "stop"
    /\ calls[s][id].pc = "draining"
    /\ StopMayReturn(s, id)
    /\ calls' = [calls EXCEPT ![s][id].pc = "done", ![s][id].res = StopResult(s, id)]
    /\ UNCHANGED <<cache, sem, waiters, transports, acquired, applied>>

\* lookup(n) on shard s finds an entry and its caller keeps the handle.
Get(s, n) ==
    /\ NumCalls < MaxCalls
    /\ n \in DOMAIN cache[s]
    /\ calls' = [calls EXCEPT ![s] = Append(@,
          [NewCall("get", n, 0, "held", "ok") EXCEPT !.seen = (n :> Lookup(s, n))])]
    /\ UNCHANGED <<cache, sem, waiters, transports, acquired, applied>>

\* The caller of lookup id lets go of its handle.
Put(s, id) ==
    /\ id \in Holding(s)
    /\ calls' = [calls EXCEPT ![s][id].pc = "done"]
    /\ transports' = [transports EXCEPT ![s] =
           Reap(@, cache[s], Held(s, Holding(s) \ {id}))]
    /\ UNCHANGED <<cache, sem, waiters, acquired, applied>>

Next ==
    \/ \E s \in Shards, n \in Nodes, c \in Cfgs : Emplace(s, n, c)
    \/ \E s \in Shards, n \in Nodes : Remove(s, n)
    \/ \E s \in Shards : Stop(s)
    \/ \E s \in Shards : \E id \in DOMAIN calls[s], ok \in BOOLEAN : EmplaceBody(s, id, ok)
    \/ \E s \in Shards : \E id \in DOMAIN calls[s] : RemoveBody(s, id)
    \/ \E s \in Shards : \E id \in DOMAIN calls[s] : Release(s, id)
    \/ \E s \in Shards : \E id \in DOMAIN calls[s], t \in DOMAIN transports[s],
          ok \in BOOLEAN : ShutdownFinish(s, id, t, ok)
    \/ \E s \in Shards : \E id \in DOMAIN calls[s] : StopReturn(s, id)

Spec == Init /\ [][Next]_vars

\* A continuation of a mutation of shard s that is ready to run: a lambda
\* whose units were granted, or the return of the units.
MutationStep(s) ==
    \E id \in DOMAIN calls[s] :
        \/ \E ok \in BOOLEAN : EmplaceBody(s, id, ok)
        \/ RemoveBody(s, id)
        \/ Release(s, id)

\* The reactor of every shard runs each continuation that is ready.
FairSpec == Spec /\ \A s \in Shards : WF_vars(MutationStep(s))

\* The registry together with callers that keep the handles lookup gave them.
NextWithHandles ==
    \/ Next
    \/ \E s \in Shards, n \in Nodes : Get(s, n)
    \/ \E s \in Shards : \E id \in DOMAIN calls[s] : Put(s, id)

SpecWithHandles == Init /\ [][NextWithHandles]_vars

----------------------------------------------------------------------------
\* Vocabulary of the properties

Last(q) == q[Len(q)]

IsMutation(c) == c.op \in {"emplace", "remove"}

\* The call appended to calls[s] by this step, when there is one.
Invoked(s) == Len(calls'[s]) = Len(calls[s]) + 1

NewestCall(s) == calls'[s][Len(calls'[s])]

\* The call whose lambda ran in this step on shard s, when there is one.
Ran(s) == Len(applied'[s]) = Len(applied[s]) + 1

RanId(s) == applied'[s][Len(applied'[s])]

\* The calls of shard s that hold units of _sem.
Holders(s) == {i \in DOMAIN calls[s] : calls[s][i].pc \in {"holding", "ran"}}

\* An emplace whose lambda constructed its transport.
Constructed(s, i) == calls[s][i].op = "emplace" /\ i \in DOMAIN transports[s]

----------------------------------------------------------------------------
\* C1: a mutation (insert or remove) for node n invoked on a shard other than
\* shard_for(n) fails at once with the affinity error, never reaches the
\* semaphore or the map, and the step that makes the call leaves every map as
\* it was.
C1_WrongShardFails ==
    [][\A s \in Shards :
          /\ (Invoked(s) /\ IsMutation(NewestCall(s))
                /\ shard_for(NewestCall(s).node) /= s)
             => /\ NewestCall(s).pc = "done"
                /\ NewestCall(s).res = "affinity"
                /\ cache' = cache
          /\ \A i \in DOMAIN calls'[s] :
                (IsMutation(calls'[s][i]) /\ shard_for(calls'[s][i].node) /= s)
                => /\ calls'[s][i].res = "affinity"
                   /\ \A k \in DOMAIN applied'[s] : applied'[s][k] /= i]_vars

\* A refused insert and a refused remove on a shard whose map has an entry.
C1_Witness ==
    \E s \in Shards :
        /\ cache[s] /= EmptyMap
        /\ \E i, j \in DOMAIN calls[s] :
              /\ calls[s][i].op = "emplace" /\ calls[s][i].res = "affinity"
              /\ calls[s][j].op = "remove" /\ calls[s][j].res = "affinity"

\* C2: every entry of the map of shard s is for a node that shard_for places on
\* s, so no node has an entry on two shards; an insert issued on a shard that
\* does not own the node adds no entry anywhere.
C2_EntriesOnOwningShard ==
    /\ \A s \in Shards : \A n \in DOMAIN cache[s] : shard_for(n) = s
    /\ \A n \in Nodes : Cardinality({s \in Shards : n \in DOMAIN cache[s]}) <= 1
    /\ \A s \in Shards : \A i \in DOMAIN calls[s] :
          (calls[s][i].op = "emplace" /\ shard_for(calls[s][i].node) /= s)
          => i \notin Range(cache[s])

\* Scenario D with both maps populated: an insert for a node of shard 0 was
\* issued on shard 1, and that node has no entry on either shard.
C2_Witness ==
    /\ \E i \in DOMAIN calls[1] :
          /\ calls[1][i].op = "emplace"
          /\ shard_for(calls[1][i].node) = 0
          /\ \A s \in Shards : calls[1][i].node \notin DOMAIN cache[s]
    /\ cache[0] /= EmptyMap
    /\ cache[1] /= EmptyMap

\* C3 as stated: once an insert has succeeded, lookup of its node returns a
\* transport built from that insert's configuration, whether or not the node
\* had an entry before (last write wins).
C3_LastWriteWins ==
    \A s \in Shards :
        (applied[s] /= <<>> /\ Constructed(s, Last(applied[s])))
        => LET c == calls[s][Last(applied[s])] IN
           /\ Lookup(s, c.node) /= 0
           /\ transports[s][Lookup(s, c.node)].cfg = c.cfg

\* C3, amended: the lambda of an insert that constructed its transport stores
\* it under the node when the node has no entry, and lookup then returns that
\* transport, built from the insert's configuration; when the node has an
\* entry the insert keeps it (first write wins) and lookup returns the same
\* transport as before.  No other entry changes either way.
C3_FirstWriteWins ==
    [][\A s \in Shards :
          (Ran(s) /\ calls[s][RanId(s)].op = "emplace"
                /\ RanId(s) \in DOMAIN transports'[s])
          => LET i == RanId(s)
                 n == calls[s][i].node
             IN
             /\ n \in DOMAIN cache'[s]
             /\ n \in DOMAIN cache[s] => cache'[s][n] = cache[s][n]
             /\ n \notin DOMAIN cache[s]
                => /\ cache'[s][n] = i
                   /\ transports'[s][i].cfg = calls[s][i].cfg
             /\ \A k \in Nodes \ {n} :
                   /\ k \in DOMAIN cache'[s] <=> k \in DOMAIN cache[s]
                   /\ k \in DOMAIN cache[s] => cache'[s][k] = cache[s][k]]_vars

\* Scenario B: insert(A, C1) and insert(A, C2) have both succeeded, C1 /= C2,
\* and lookup(A) returns the transport of the first.
C3_Witness ==
    \E s \in Shards : \E i, j \in DOMAIN calls[s] :
        /\ i < j
        /\ Constructed(s, i) /\ Constructed(s, j)
        /\ calls[s][i].pc = "done" /\ calls[s][j].pc = "done"
        /\ calls[s][i].node = calls[s][j].node
        /\ calls[s][i].cfg /= calls[s][j].cfg
        /\ Lookup(s, calls[s][i].node) = i

\* C4: at no instant do two mutations of one shard hold units of its
\* semaphore, however many are issued at once.
C4_OneMutationInSlot ==
    \A s \in Shards :
        /\ Cardinality(Holders(s)) <= 1
        /\ sem[s] + Cardinality(Holders(s)) = SemInit

\* Three mutations issued at once on one shard: one in the slot, two suspended.
C4_Witness ==
    \E s \in Shards :
        /\ Cardinality(Holders(s)) = 1
        /\ Len(waiters[s]) = 2

\* Scenario A: the calls of shard s are insert(A, C1), completed, and then a
\* stop() that found A's entry and has returned.
ScenarioA(s) ==
    /\ Len(calls[s]) = 2
    /\ Constructed(s, 1)
    /\ calls[s][1].pc = "done"
    /\ calls[s][2].op = "stop"
    /\ calls[s][2].pc = "done"
    /\ calls[s][2].seen = (calls[s][1].node :> 1)

\* C5 as stated: after insert(A, C1) and then stop(), the map is empty and the
\* transport built from C1 has received exactly one shutdown request.
C5_StopEmptiesMap ==
    \A s \in Shards :
        ScenarioA(s) => /\ cache[s] = EmptyMap
                        /\ transports[s][1].reqs = 1

\* C5, amended: after insert(A, C1) and then stop(), the transport built from
\* C1 has received exactly one shutdown request and that shutdown has
\* finished; the map still holds the entry for A, since stop() erases nothing.
C5_StopKeepsEntries ==
    \A s \in Shards :
        ScenarioA(s) => /\ cache[s] = (calls[s][1].node :> 1)
                        /\ transports[s][1].cfg = calls[s][1].cfg
                        /\ transports[s][1].reqs = 1
                        /\ transports[s][1].fin = 1

C5_Witness == \E s \in Shards : ScenarioA(s)

IsStop(s, i) == calls[s][i].op = "stop"

\* Some stop future that call i of shard s collected resolved with an exception.
SomeShutdownFailed(s, i) ==
    \E t \in DOMAIN calls[s][i].outcome : ~calls[s][i].outcome[t]

\* C6: stop() asks every transport that is in the map when it is invoked to
\* stop, and it has not returned while one of those stops is unfinished.
C6_StopDrainsEveryEntry ==
    \A s \in Shards : \A i \in DOMAIN calls[s] :
        IsStop(s, i)
        => \A n \in DOMAIN calls[s][i].seen :
              LET t == calls[s][i].seen[n] IN
              /\ t \in calls[s][i].asked
              /\ transports[s][t].reqs >= 1
              /\ calls[s][i].pc = "done"
                 => /\ t \in DOMAIN calls[s][i].outcome
                    /\ transports[s][t].fin >= 1

\* stop() has returned after finding two entries.
C6_Witness ==
    \E s \in Shards : \E i \in DOMAIN calls[s] :
        /\ IsStop(s, i)
        /\ calls[s][i].pc = "done"
        /\ Cardinality(DOMAIN calls[s][i].seen) = 2
        /\ ~SomeShutdownFailed(s, i)

\* C7: when a shutdown fails, stop() has still asked every entry it found, it
\* returns only when all of them have finished, and then with the failure;
\* it never returns success after a failed shutdown, and no transport gets
\* more shutdown requests than there were stop() calls that found it.
C7_StopSurfacesFailure ==
    \A s \in Shards :
        /\ \A i \in DOMAIN calls[s] :
              (IsStop(s, i) /\ calls[s][i].pc = "done")
              => /\ calls[s][i].res = "shutdown" <=> SomeShutdownFailed(s, i)
                 /\ SomeShutdownFailed(s, i)
                    => /\ Range(calls[s][i].seen) \subseteq calls[s][i].asked
                       /\ DOMAIN calls[s][i].outcome = calls[s][i].asked
        /\ \A t \in DOMAIN transports[s] :
              /\ transports[s][t].reqs =
                    Cardinality({i \in DOMAIN calls[s] :
                                    IsStop(s, i) /\ t \in calls[s][i].asked})
              /\ transports[s][t].fin <= transports[s][t].reqs

\* stop() found two entries; one shutdown failed, the other succeeded, and
\* stop() has returned the failure.
C7_Witness ==
    \E s \in Shards : \E i \in DOMAIN calls[s] :
        /\ IsStop(s, i)
        /\ calls[s][i].pc = "done"
        /\ calls[s][i].res = "shutdown"
        /\ \E t, u \in calls[s][i].asked :
              ~calls[s][i].outcome[t] /\ calls[s][i].outcome[u]

\* The effect of the lambda of call i of shard s on a map m.
ApplyCall(s, i, m) ==
    IF calls[s][i].op = "remove" THEN MapErase(m, calls[s][i].node)
    ELSE IF i \in DOMAIN transports[s] THEN MapEmplace(m, calls[s][i].node, i)
    ELSE m

RECURSIVE Replay(_, _, _)
Replay(s, q, m) ==
    IF q = <<>> THEN m ELSE Replay(s, Tail(q), ApplyCall(s, Head(q), m))

\* The calls of shard s whose lambda has run, in slot-acquisition order.
Linearized(s) ==
    LET HasRun(i) == calls[s][i].pc \in {"ran", "done"}
    IN SelectSeq(acquired[s], HasRun)

\* The mutations on node n among them that were not failed constructions.
EffectiveOn(s, n) ==
    LET Hits(i) == /\ calls[s][i].node = n
                   /\ calls[s][i].op = "emplace" => i \in DOMAIN transports[s]
    IN SelectSeq(Linearized(s), Hits)

\* C8: the lambdas of the mutations of a shard run in slot-acquisition order
\* and the map is the result of applying them one at a time in that order; for
\* an insert and a remove of one node the later acquirer decides: the entry is
\* absent after the remove, and is the insert's own after remove-then-insert;
\* every entry lookup can see is a fully constructed transport.
C8_LinearizedInSlotOrder ==
    \A s \in Shards :
        /\ applied[s] = Linearized(s)
        /\ cache[s] = Replay(s, Linearized(s), EmptyMap)
        /\ Range(cache[s]) \subseteq DOMAIN transports[s]
        /\ \A n \in Nodes :
              LET q == EffectiveOn(s, n) IN
              q /= <<>>
              => /\ calls[s][Last(q)].op = "remove" => Lookup(s, n) = 0
                 /\ calls[s][Last(q)].op = "emplace" => Lookup(s, n) /= 0
                 /\ (Len(q) >= 2 /\ calls[s][Last(q)].op = "emplace"
                       /\ calls[s][q[Len(q) - 1]].op = "remove")
                    => Lookup(s, n) = Last(q)

\* Scenario C on a node that already has an entry: remove(A) and insert(A, C)
\* are in flight together; the remove acquired the slot first and its lambda
\* has run, the insert is suspended behind it, and lookup(A) finds no entry.
C8_Witness ==
    \E s \in Shards : \E i, j, k \in DOMAIN calls[s] :
        /\ Constructed(s, i)
        /\ calls[s][j].op = "remove"
        /\ calls[s][k].op = "emplace"
        /\ calls[s][i].node = calls[s][j].node
        /\ calls[s][j].node = calls[s][k].node
        /\ acquired[s] = <<i, j>>
        /\ calls[s][j].pc = "ran"
        /\ waiters[s] = <<k>>
        /\ Lookup(s, calls[s][j].node) = 0

\* C9: remove(n) on the owning shard when n has no entry leaves the map as it
\* was and raises no error: the call completes with success.
C9_RemoveAbsentIsNoop ==
    [][\A s \in Shards :
          /\ (Ran(s) /\ calls[s][RanId(s)].op = "remove"
                /\ calls[s][RanId(s)].node \notin DOMAIN cache[s])
             => /\ cache' = cache
                /\ transports' = transports
                /\ calls'[s][RanId(s)].res = "pending"
          /\ \A i \in DOMAIN calls'[s] :
                (calls'[s][i].op = "remove" /\ calls'[s][i].pc = "done"
                   /\ shard_for(calls'[s][i].node) = s)
                => calls'[s][i].res = "ok"]_vars

\* A remove of a node that never had an entry has completed with success on a
\* shard whose map holds another node's entry.
C9_Witness ==
    \E s \in Shards : \E i \in DOMAIN calls[s] :
        /\ calls[s][i].op = "remove"
        /\ calls[s][i].pc = "done"
        /\ calls[s][i].res = "ok"
        /\ \A j \in DOMAIN calls[s] :
              calls[s][j].op = "emplace" => calls[s][j].node /= calls[s][i].node
        /\ cache[s] /= EmptyMap

\* C10: when the lambda of remove(n) has run on the owning shard the map has no
\* entry for n, and an absent node gets an entry only in a step in which the
\* lambda of an insert for that node runs.
C10_RemovedUntilInsert ==
    [][\A s \in Shards :
          /\ (Ran(s) /\ calls[s][RanId(s)].op = "remove")
             => calls[s][RanId(s)].node \notin DOMAIN cache'[s]
          /\ \A n \in Nodes :
                (n \notin DOMAIN cache[s] /\ n \in DOMAIN cache'[s])
                => /\ Ran(s)
                   /\ calls[s][RanId(s)].op = "emplace"
                   /\ calls[s][RanId(s)].node = n
          /\ \A i \in DOMAIN calls'[s] :
                (calls'[s][i].op = "remove" /\ calls'[s][i].pc = "done"
                   /\ calls'[s][i].res = "ok" /\ applied'[s] /= <<>>
                   /\ Last(applied'[s]) = i)
                => calls'[s][i].node \notin DOMAIN cache'[s]]_vars

\* insert(n), then remove(n), both completed: n had an entry and has none now.
C10_Witness ==
    \E s \in Shards : \E i, j \in DOMAIN calls[s] :
        /\ Constructed(s, i) /\ calls[s][i].pc = "done"
        /\ calls[s][j].op = "remove" /\ calls[s][j].pc = "done"
        /\ calls[s][i].node = calls[s][j].node
        /\ applied[s] = <<i, j>>
        /\ Lookup(s, calls[s][j].node) = 0

\* C11: a transport lives by its references, not by its map entry: while the
\* map or a handle obtained by lookup refers to it, it exists, also after its
\* entry was removed; so a destroyed transport is referenced by neither.
C11_LifetimeByReference ==
    \A s \in Shards : \A t \in DOMAIN transports[s] :
        /\ t \in Range(cache[s]) => transports[s][t].alive
        /\ \A i \in Holding(s) : HandleOf(s, i) = t => transports[s][t].alive
        /\ ~transports[s][t].alive
           => /\ t \notin Range(cache[s])
              /\ \A i \in Holding(s) : HandleOf(s, i) /= t

\* A caller holds a handle from lookup(n); remove(n) has completed since, the
\* map has no entry for n, and the transport still exists.
C11_Witness ==
    \E s \in Shards : \E i \in Holding(s) : \E j \in DOMAIN calls[s] :
        /\ calls[s][j].op = "remove"
        /\ calls[s][j].pc = "done"
        /\ calls[s][j].node = calls[s][i].node
        /\ i < j
        /\ Lookup(s, calls[s][i].node) = 0
        /\ transports[s][HandleOf(s, i)].alive

\* The stop requests transport t of shard s has received, none if it is not
\* constructed yet.
ReqsOf(trs, s, t) == IF t \in DOMAIN trs[s] THEN trs[s][t].reqs ELSE 0

\* C12: the count of stop requests of a transport changes only in the step
\* that invokes stop() on its shard, and only for a transport in the map at
\* that instant: no insert and no remove asks a transport to stop, and a
\* transport that no stop() found in the map has received no request.
C12_ShutdownOnlyThroughStop ==
    [][\A s \in Shards : \A t \in DOMAIN transports'[s] :
          /\ ReqsOf(transports', s, t) /= ReqsOf(transports, s, t)
             => /\ Invoked(s)
                /\ NewestCall(s).op = "stop"
                /\ t \in Range(cache[s])
          /\ (\A i \in DOMAIN calls'[s] : t \notin Range(calls'[s][i].seen))
             => ReqsOf(transports', s, t) = 0]_vars

\* insert(n), remove(n), then stop(), all completed: the transport that was
\* removed before stop() has received no stop request.
C12_Witness ==
    \E s \in Shards : \E i, j, k \in DOMAIN calls[s] :
        /\ i < j /\ j < k
        /\ Constructed(s, i)
        /\ calls[s][j].op = "remove" /\ calls[s][j].node = calls[s][i].node
        /\ applied[s] = <<i, j>>
        /\ IsStop(s, k) /\ calls[s][k].pc = "done"
        /\ calls[s][k].seen = EmptyMap
        /\ transports[s][i].reqs = 0

\* C13: at the instant stop() returns, whatever inserts and removes were issued
\* before it or while it was in progress, every transport in the map of the
\* shard has completed a shutdown.
C13_StopLeavesNoLiveTransport ==
    [][\A s \in Shards : \A i \in DOMAIN calls[s] :
          (IsStop(s, i) /\ calls[s][i].pc = "draining"
             /\ calls'[s][i].pc = "done")
          => \A t \in Range(cache'[s]) : transports'[s][t].fin >= 1]_vars

\* C14: a mutation invoked on a shard that does not own its node is refused in
\* the step that invokes it, whoever holds the slot and whoever waits for it:
\* the count and the wait list of every semaphore, and the order of grants,
\* are as before, and the call is never among the holders or the waiters.
C14_AffinityBeforeSlot ==
    [][\A s \in Shards :
          /\ (Invoked(s) /\ IsMutation(NewestCall(s))
                /\ shard_for(NewestCall(s).node) /= s)
             => /\ NewestCall(s).pc = "done"
                /\ NewestCall(s).res = "affinity"
                /\ sem' = sem
                /\ waiters' = waiters
                /\ acquired' = acquired
          /\ \A i \in DOMAIN calls'[s] :
                (IsMutation(calls'[s][i]) /\ shard_for(calls'[s][i].node) /= s)
                => /\ calls'[s][i].pc = "done"
                   /\ \A k \in DOMAIN waiters'[s] : waiters'[s][k] /= i
                   /\ \A k \in DOMAIN acquired'[s] : acquired'[s][k] /= i]_vars

\* A mutation holds the slot, another waits for it, and a mutation for a
\* foreign node invoked after both has been refused.
C14_Witness ==
    \E s \in Shards :
        /\ Len(calls[s]) = 3
        /\ calls[s][1].pc \in {"holding", "ran"}
        /\ waiters[s] = <<2>>
        /\ IsMutation(calls[s][3])
        /\ calls[s][3].res = "affinity"
        /\ sem[s] = 0

\* The mutations of shard s that have passed the affinity check and have not
\* finished.
InFlight(cs, s) ==
    {i \in DOMAIN cs[s] : cs[s][i].pc \in {"waiting", "holding", "ran"}}

\* C15: a mutation that finishes gives the slot back, whether its lambda
\* returned or the construction of the transport threw: with no mutation in
\* flight on a shard its semaphore has its full count and nobody waits.  The
\* lambda of an insert whose construction throws leaves the map and the
\* transports as they were, and the call ends with that error.
C15_SlotReleasedOnEveryPath ==
    [][\A s \in Shards :
          /\ InFlight(calls', s) = {}
             => /\ sem'[s] = SemInit
                /\ waiters'[s] = <<>>
          /\ (Ran(s) /\ calls'[s][RanId(s)].res = "construct")
             => /\ cache' = cache
                /\ transports' = transports
          /\ \A i \in DOMAIN calls[s] :
                calls[s][i].res = "construct"
                => calls'[s][i].res = "construct"]_vars

\* An insert whose construction threw is done; the mutation that waited behind
\* it got the slot, has completed too, and the slot is free.
C15_Witness ==
    \E s \in Shards :
        /\ acquired[s] = <<1, 2>>
        /\ calls[s][1].op = "emplace"
        /\ calls[s][1].pc = "done"
        /\ calls[s][1].res = "construct"
        /\ calls[s][2].pc = "done"
        /\ calls[s][2].res = "ok"
        /\ InFlight(calls, s) = {}
        /\ sem[s] = SemInit
        /\ cache[s] /= EmptyMap

\* C16: under fair scheduling of the shard's tasks every mutation invoked on
\* the owning shard is granted the slot and completes.
C16_EveryMutationCompletes ==
    \A s \in Shards : \A i \in 1 .. MaxCalls :
        (/\ i \in DOMAIN calls[s]
         /\ IsMutation(calls[s][i])
         /\ shard_for(calls[s][i].node) = s)
        ~> (/\ i \in DOMAIN calls[s]
            /\ calls[s][i].pc = "done"
            /\ \E k \in DOMAIN acquired[s] : acquired[s][k] = i)

\* Three mutations on one shard: the first has completed, the second is in
\* the slot, the third is suspended behind it.
C16_Witness ==
    \E s \in Shards :
        /\ Len(calls[s]) = 3
        /\ calls[s][1].pc = "done"
        /\ calls[s][1].res \in {"ok", "construct"}
        /\ acquired[s] = <<1, 2>>
        /\ waiters[s] = <<3>>

\* A step of the mutation i of shard s: its invocation, the grant of the
\* units, its lambda or the return of its units.
StepOf(s, i) ==
    /\ i \in DOMAIN calls'[s]
    /\ IsMutation(calls'[s][i])
    /\ (i \notin DOMAIN calls[s] \/ calls'[s][i] /= calls[s][i])

\* The entry of node m on shard s, and the transport behind it, are as before.
EntryKept(s, m) ==
    /\ (m \in DOMAIN cache'[s]) = (m \in DOMAIN cache[s])
    /\ m \in DOMAIN cache[s]
        => /\ cache'[s][m] = cache[s][m]
           /\ cache[s][m] \in DOMAIN transports'[s]
           /\ transports'[s][cache[s][m]] = transports[s][cache[s][m]]

\* C17: a step of an insert or remove for node n on shard s changes at most
\* the entry for n in the map of s; the entries of the other nodes of s and
\* the maps and slots of the other shards are unchanged.
C17_MutationFrame ==
    [][\A s \in Shards : \A i \in DOMAIN calls'[s] :
          StepOf(s, i)
          => /\ \A m \in Nodes \ {calls'[s][i].node} : EntryKept(s, m)
             /\ \A o \in Shards \ {s} :
                   /\ cache'[o] = cache[o]
                   /\ sem'[o] = sem[o]
                   /\ waiters'[o] = waiters[o]
                   /\ transports'[o] = transports[o]]_vars

\* A shard holds entries for two nodes, a remove for one of them has run, and
\* the other entry is still there.
C17_Witness ==
    \E s \in Shards : \E i \in DOMAIN calls[s] :
        /\ calls[s][i].op = "remove"
        /\ calls[s][i].pc \in {"ran", "done"}
        /\ calls[s][i].res = "ok"
        /\ \E k \in 1 .. (i - 1) :
              /\ calls[s][k].op = "emplace"
              /\ calls[s][k].node = calls[s][i].node
              /\ k \in DOMAIN transports[s]
        /\ calls[s][i].node \notin DOMAIN cache[s]
        /\ \E m \in DOMAIN cache[s] : m /= calls[s][i].node

====
